---- MODULE Spec2Model ----
(***************************************************************************)
(* Model of the multi-format intake system: the ephemeral TTL cache        *)
(* (memory_manager.py, table memory_store), the classifier (classifier.py) *)
(* and the JSON extraction entry point (data_extractor.py) with its caller *)
(* (main.py).                                                              *)
(*                                                                         *)
(* Time is an integer number of clock ticks.  datetime.now() reads the     *)
(* clock `now`; SQLite's CURRENT_TIMESTAMP reads the same clock truncated  *)
(* to whole seconds.                                                       *)
(***************************************************************************)
EXTENDS Integers, Sequences, FiniteSets, TLC

VARIABLES
  table,       \* the rows of memory_store
  now,         \* the clock
  nadv,        \* how many times the clock was advanced
  ret,         \* the last call: its arguments and what the caller got (for
               \* a store also the payload it replaced, if any)
  hist,        \* per key, the arguments of the last successful store
  storeOrder,  \* the keys in the order of their last successful store
  pc,          \* concurrent requests: where each request is in store
  job,         \* concurrent requests: the arguments and locals of each store
  lock,        \* the request holding the database's write lock, or "none"
  res,         \* concurrent requests: what each store returned
  req,         \* pipeline: the file and declared kind of the last call
  nup          \* pipeline: how many uploads were given a file id

concVars == <<pc, job, lock, res>>
pipeVars == <<req, nup>>
vars == <<table, now, nadv, ret, hist, storeOrder, pc, job, lock, res, req, nup>>

(***************************************************************************)
(* Bounds and program constants.                                           *)
(***************************************************************************)
\* ticks per second of the clock (datetime.now() is finer than one second)
SecTicks == 2
\* ticks per hour (scaled)
HourTicks == 2
\* how many times the clock is advanced in one behaviour
MaxAdvances == 2
\* store(..., expires_hours: int = 24)
DefaultTTL == 24

Keys == {"k1", "k2"}
TTLs == {0, DefaultTTL}
AdvanceSteps == {1, DefaultTTL * HourTicks}

(***************************************************************************)
(* Python values handed to the cache, and the JSON text json.dumps emits.  *)
(* A value is <<tag, content>>.  Python: "str", "int" (content: the        *)
(* digits), "float" (content: <<numerator, denominator>>), "None",         *)
(* "list"/"tuple" (content: a sequence of values), "set", "dict"           *)
(* (content: a sequence of <<key, value>> items).  JSON: "jstr", "jint",   *)
(* "jfloat", "jnull", "jarr", "jobj" (content: a sequence of               *)
(* <<name, value>> members, the name a string).                            *)
(***************************************************************************)
PyStr(s) == <<"str", s>>
PyInt(d) == <<"int", d>>
PyFloat(n, d) == <<"float", <<n, d>>>>
PyNone == <<"None", <<>>>>
PyList(xs) == <<"list", xs>>
PyTuple(xs) == <<"tuple", xs>>
PySet == <<"set", <<>>>>
PyDict(items) == <<"dict", items>>

\* json.dumps raises TypeError for values of other types (here: set) and
\* for dict keys that are not str/int (here: tuple keys)
RECURSIVE Serializable(_)
Serializable(v) ==
  CASE v[1] \in {"str", "int", "float", "None"} -> TRUE
    [] v[1] \in {"list", "tuple"} ->
         \A i \in 1..Len(v[2]) : Serializable(v[2][i])
    [] v[1] = "dict" ->
         \A i \in 1..Len(v[2]) :
            /\ v[2][i][1][1] \in {"str", "int"}
            /\ Serializable(v[2][i][2])
    [] OTHER -> FALSE

\* the member name json.dumps writes for a dict key: a str key as it is,
\* an int key as its decimal digits
KeyName(k) == k[2]

\* json.dumps(data)
RECURSIVE Dumps(_)
Dumps(v) ==
  CASE v[1] = "str" -> <<"jstr", v[2]>>
    [] v[1] = "int" -> <<"jint", v[2]>>
    [] v[1] = "float" -> <<"jfloat", v[2]>>
    [] v[1] = "None" -> <<"jnull", <<>>>>
    [] v[1] \in {"list", "tuple"} ->
         <<"jarr", [i \in 1..Len(v[2]) |-> Dumps(v[2][i])]>>
    [] v[1] = "dict" ->
         <<"jobj", [i \in 1..Len(v[2]) |->
                      <<KeyName(v[2][i][1]), Dumps(v[2][i][2])>>]>>

\* json.loads(text): an object becomes a dict with str keys (a repeated
\* name keeps its first position and its last value), an array a list
RECURSIVE Loads(_)
Loads(j) ==
  CASE j[1] = "jstr" -> <<"str", j[2]>>
    [] j[1] = "jint" -> <<"int", j[2]>>
    [] j[1] = "jfloat" -> <<"float", j[2]>>
    [] j[1] = "jnull" -> <<"None", <<>>>>
    [] j[1] = "jarr" -> <<"list", [i \in 1..Len(j[2]) |-> Loads(j[2][i])]>>
    [] j[1] = "jobj" ->
         LET m == j[2]
             firsts == {i \in 1..Len(m) : \A h \in 1..(i-1) : m[h][1] # m[i][1]}
             last(i) == CHOOSE h \in 1..Len(m) :
                          /\ m[h][1] = m[i][1]
                          /\ \A g \in (h+1)..Len(m) : m[g][1] # m[i][1]
             pos(n) == CHOOSE i \in firsts : Cardinality({h \in firsts : h < i}) = n - 1
         IN <<"dict", [n \in 1..Cardinality(firsts) |->
                         <<<<"str", m[pos(n)][1]>>, Loads(m[last(pos(n))][2])>>]>>

\* a value json.loads can return: str keys only, no tuples, no sets
RECURSIVE JsonNative(_)
JsonNative(v) ==
  CASE v[1] \in {"str", "int", "float", "None"} -> TRUE
    [] v[1] = "list" -> \A i \in 1..Len(v[2]) : JsonNative(v[2][i])
    [] v[1] = "dict" ->
         /\ \A i \in 1..Len(v[2]) :
               /\ v[2][i][1][1] = "str"
               /\ JsonNative(v[2][i][2])
         /\ \A i, h \in 1..Len(v[2]) : i # h => v[2][i][1] # v[2][h][1]
    [] OTHER -> FALSE

\* the payloads callers store (data: Dict[str, Any])
PA == PyDict(<< <<PyStr("a"), PyStr("x")>> >>)
PTuple == PyDict(<< <<PyInt("1"), PyTuple(<<PyInt("1"), PyStr("y")>>)>> >>)
PUnser == PyDict(<< <<PyStr("a"), PySet>> >>)
Payloads == {PA, PTuple, PUnser}

NoPayload == <<"none", <<>>>>

\* d[name] and `name in d` for a dict d with str keys
HasKey(d, name) == \E i \in 1..Len(d[2]) : d[2][i][1] = PyStr(name)
Field(d, name) == d[2][CHOOSE i \in 1..Len(d[2]) : d[2][i][1] = PyStr(name)][2]
DictKeys(d) == {d[2][i][1][2] : i \in 1..Len(d[2])}

(***************************************************************************)
(* Table memory_store: a set of rows.  key TEXT PRIMARY KEY, data TEXT     *)
(* NOT NULL, created_at TIMESTAMP DEFAULT CURRENT_TIMESTAMP, expires_at    *)
(* TIMESTAMP.  A timestamp column holds <<>> for NULL and <<t>> otherwise. *)
(***************************************************************************)
Null == <<>>
Ts(t) == <<t>>
IsNull(x) == x = <<>>

Row(k, text, created, expires) ==
  [key |-> k, data |-> text, created_at |-> created, expires_at |-> expires]

\* DEFAULT CURRENT_TIMESTAMP: the clock in whole seconds
CurrentTimestamp(t) == t \div SecTicks

\* variant: the expiry ignores expires_hours
ExpiresAtNoTTL(t, hours) == t
\* datetime.now() + timedelta(hours=expires_hours)
ExpiresAt(t, hours) == t + hours * HourTicks

\* variant: an update in place, the row keeps the created_at it had
InsertKeepCreated(tbl, row) ==
  {r \in tbl : r.key # row.key}
    \cup {[row EXCEPT !.created_at = IF \E r \in tbl : r.key = row.key
                                      THEN (CHOOSE r \in tbl : r.key = row.key).created_at
                                      ELSE row.created_at]}
\* variant: a plain INSERT that keeps the row already stored under the key
PlainInsert(tbl, row) == tbl \cup {row}
\* INSERT OR REPLACE: the rows that conflict on the primary key are deleted
\* and the new row is inserted
InsertOrReplace(tbl, row) == {r \in tbl : r.key # row.key} \cup {row}

\* variant: an entry is still read at the instant it expires
VisibleAtExpiry(r, t) == IsNull(r.expires_at) \/ r.expires_at[1] >= t
\* WHERE expires_at IS NULL OR expires_at > ?
Visible(r, t) == IsNull(r.expires_at) \/ r.expires_at[1] > t

\* variant: the sweep spares the entries that expire exactly now
ExpiredStrict(r, t) == ~IsNull(r.expires_at) /\ r.expires_at[1] < t
\* WHERE expires_at IS NOT NULL AND expires_at <= ?
Expired(r, t) == ~IsNull(r.expires_at) /\ r.expires_at[1] <= t

\* variant: a failed commit leaves the statement's writes in the table
CommitPartial(committed, pending, ok) == pending
\* conn.commit(): the statement's writes become the table, or, when the
\* commit fails, are rolled back with the connection
Commit(committed, pending, ok) == IF ok THEN pending ELSE committed

\* where the underlying store can fail inside a handler
WriteFaults == {"none", "execute", "commit"}
ReadFaults == {"none", "execute"}

(***************************************************************************)
(* The handlers' try bodies.  Each gives [raised, table, ...]: whether an  *)
(* exception left the body, and the table the call leaves behind.          *)
(***************************************************************************)
\* store, lines 44-56
StoreTry(tbl, k, data, hours, t, f) ==
  IF f = "execute" \/ ~Serializable(data)
  THEN [raised |-> TRUE, table |-> tbl]
  ELSE LET row == Row(k, Dumps(data), Ts(CurrentTimestamp(t)), Ts(ExpiresAt(t, hours)))
       IN [raised |-> f = "commit",
           table |-> Commit(tbl, InsertOrReplace(tbl, row), f # "commit")]

\* variant: get removes the expired row it finds under the key
GetTableLazy(tbl, k, t) == {r \in tbl : ~(r.key = k /\ ~Visible(r, t))}
\* get issues a SELECT only and never commits: the table after get
GetTable(tbl, k, t) == tbl

\* get, lines 65-78: the rows the SELECT matches
GetRows(tbl, k, t) == {r \in tbl : r.key = k /\ Visible(r, t)}

\* variant: deleting a key that is not stored is an error
DeleteTryMissing(tbl, k, f) ==
  IF f = "execute" \/ ~(\E r \in tbl : r.key = k)
  THEN [raised |-> TRUE, table |-> tbl]
  ELSE [raised |-> f = "commit",
        table |-> Commit(tbl, {r \in tbl : r.key # k}, f # "commit")]
\* delete, lines 87-94
DeleteTry(tbl, k, f) ==
  IF f = "execute"
  THEN [raised |-> TRUE, table |-> tbl]
  ELSE [raised |-> f = "commit",
        table |-> Commit(tbl, {r \in tbl : r.key # k}, f # "commit")]

\* get_all_memory, lines 106-110: the rows the SELECT matches
LiveRows(tbl, t) == {r \in tbl : Visible(r, t)}

\* variant: ORDER BY created_at ASC
OrderedAsc(s) == \A i, j \in 1..Len(s) : i < j => s[i].created_at[1] <= s[j].created_at[1]
\* ORDER BY created_at DESC (rows with equal created_at come in any order)
Ordered(s) == \A i, j \in 1..Len(s) : i < j => s[i].created_at[1] >= s[j].created_at[1]

\* the sequences in which the SELECT of get_all_memory can return rows S
FetchAll(S) ==
  {s \in [1..Cardinality(S) -> S] :
     /\ \A i, j \in 1..Cardinality(S) : i # j => s[i] # s[j]
     /\ Ordered(s)}

\* lines 115-121: one list element per row
MemoryEntry(r) ==
  [key |-> r.key, data |-> Loads(r.data),
   created_at |-> r.created_at, expires_at |-> r.expires_at]

\* cleanup_expired, lines 133-145
CleanupTry(tbl, t, f) ==
  IF f = "execute"
  THEN [raised |-> TRUE, table |-> tbl, count |-> 0]
  ELSE LET doomed == {r \in tbl : Expired(r, t)}
       IN [raised |-> f = "commit",
           table |-> Commit(tbl, tbl \ doomed, f # "commit"),
           count |-> Cardinality(doomed)]

(***************************************************************************)
(* What the caller sees: [kind, tag, payload, list, count].                *)
(***************************************************************************)
Outcome(kind, tag, payload, list, count) ==
  [kind |-> kind, tag |-> tag, payload |-> payload, list |-> list, count |-> count]

\* variant: no except clause, the exception reaches the caller
Propagate(raised, normal, onError) ==
  IF raised THEN Outcome("raise", "Exception", NoPayload, <<>>, 0) ELSE normal
\* try: ... return normal / except Exception: return onError
TryExcept(raised, normal, onError) == IF raised THEN onError ELSE normal

RetTrue == Outcome("return", "True", NoPayload, <<>>, 0)
RetFalse == Outcome("return", "False", NoPayload, <<>>, 0)
RetNone == Outcome("return", "None", NoPayload, <<>>, 0)
RetPayload(p) == Outcome("return", "payload", p, <<>>, 0)
RetList(l) == Outcome("return", "list", NoPayload, l, 0)
RetCount(n) == Outcome("return", "count", NoPayload, <<>>, n)

(***************************************************************************)
(* The cache, one caller at a time: every action is a whole handler.       *)
(***************************************************************************)
\* replaced: the payload a store found under its key; stale: whether the
\* row it replaced had expired; conn: the connection the call opened, as
\* the call leaves it ("none" for a call that opens no connection)
Call(op, k, raised, out) ==
  [op |-> op, key |-> k, raised |-> raised, replaced |-> NoPayload,
   kind |-> out.kind, tag |-> out.tag, payload |-> out.payload,
   list |-> out.list, count |-> out.count, conn |-> "none", stale |-> FALSE]

\* conn.close() is the last statement of the try body: an exception after
\* sqlite3.connect skips it, and the except clause does not close
ConnAfter(raised) == IF raised THEN "open" ELSE "closed"

NoStore == [set |-> FALSE, data |-> NoPayload, at |-> 0, ttl |-> 0]
Stored(p, t, h) == [set |-> TRUE, data |-> p, at |-> t, ttl |-> h]

Without(seq, k) == SelectSeq(seq, LAMBDA x : x # k)

\* the independent requests that use the cache at the same time
Procs == {"r1", "r2"}
NoJob == [key |-> "", data |-> NoPayload, ttl |-> 0, expires |-> Null,
          created |-> Null, pending |-> {}]

Init ==
  /\ table = {}
  /\ now = 0
  /\ nadv = 0
  /\ ret = Call("init", "", FALSE, RetNone)
  /\ hist = [k \in Keys |-> NoStore]
  /\ storeOrder = <<>>
  /\ pc = [p \in Procs |-> "idle"]
  /\ job = [p \in Procs |-> NoJob]
  /\ lock = "none"
  /\ res = [p \in Procs |-> "none"]
  /\ req = [file |-> [path |-> "", name |-> "", status |-> "missing",
                      body |-> [text |-> "", kws |-> {}, size |-> 0,
                                parse |-> [ok |-> FALSE, ast |-> <<"jnull", <<>>>>,
                                           msg |-> "", kws |-> {}]]],
            input_type |-> ""]
  /\ nup = 0

\* MemoryManager.store(key, data, expires_hours)
Store(k, p, h, f) ==
  LET o == StoreTry(table, k, p, h, now, f) IN
  /\ table' = o.table
  /\ ret' = [Call("store", k, o.raised, TryExcept(o.raised, RetTrue, RetFalse))
               EXCEPT !.replaced = IF o.raised THEN NoPayload ELSE hist[k].data,
                      !.conn = ConnAfter(o.raised),
                      !.stale = ~o.raised /\ \E r \in table : r.key = k /\ ~Visible(r, now)]
  /\ hist' = IF o.raised THEN hist ELSE [hist EXCEPT ![k] = Stored(p, now, h)]
  /\ storeOrder' = IF o.raised THEN storeOrder ELSE Append(Without(storeOrder, k), k)
  /\ UNCHANGED <<now, nadv>>
  /\ UNCHANGED <<concVars, pipeVars>>

\* lines 73-78: fetchone() and json.loads
GetResults(tbl, k, t) ==
  IF GetRows(tbl, k, t) = {} THEN {RetNone}
  ELSE {RetPayload(Loads(r.data)) : r \in GetRows(tbl, k, t)}

\* MemoryManager.get(key)
Get(k, f) ==
  /\ \E out \in GetResults(table, k, now) :
        ret' = [Call("get", k, f # "none", TryExcept(f # "none", out, RetNone))
                  EXCEPT !.conn = ConnAfter(f # "none")]
  /\ table' = IF f = "none" THEN GetTable(table, k, now) ELSE table
  /\ UNCHANGED <<now, nadv, hist, storeOrder>>
  /\ UNCHANGED <<concVars, pipeVars>>

\* MemoryManager.delete(key)
Delete(k, f) ==
  LET o == DeleteTry(table, k, f) IN
  /\ table' = o.table
  /\ ret' = [Call("delete", k, o.raised, TryExcept(o.raised, RetTrue, RetFalse))
               EXCEPT !.conn = ConnAfter(o.raised)]
  /\ hist' = IF o.raised THEN hist ELSE [hist EXCEPT ![k] = NoStore]
  /\ storeOrder' = IF o.raised THEN storeOrder ELSE Without(storeOrder, k)
  /\ UNCHANGED <<now, nadv>>
  /\ UNCHANGED <<concVars, pipeVars>>

\* MemoryManager.get_all_memory()
GetAllMemory(f) ==
  /\ \E s \in FetchAll(LiveRows(table, now)) :
        ret' = [Call("list", "", f # "none",
                     TryExcept(f # "none",
                               RetList([i \in 1..Len(s) |-> MemoryEntry(s[i])]),
                               RetList(<<>>)))
                  EXCEPT !.conn = ConnAfter(f # "none")]
  /\ UNCHANGED <<table, now, nadv, hist, storeOrder>>
  /\ UNCHANGED <<concVars, pipeVars>>

\* MemoryManager.cleanup_expired()
CleanupExpired(f) ==
  LET o == CleanupTry(table, now, f) IN
  /\ table' = o.table
  /\ ret' = [Call("sweep", "", o.raised,
                  TryExcept(o.raised, RetCount(o.count), RetCount(0)))
               EXCEPT !.conn = ConnAfter(o.raised)]
  /\ UNCHANGED <<now, nadv, hist, storeOrder>>
  /\ UNCHANGED <<concVars, pipeVars>>

\* time passes between two calls
Advance(d) ==
  /\ nadv < MaxAdvances
  /\ now' = now + d
  /\ nadv' = nadv + 1
  /\ ret' = Call("advance", "", FALSE, RetNone)
  /\ UNCHANGED <<table, hist, storeOrder>>
  /\ UNCHANGED <<concVars, pipeVars>>

Next ==
  \/ \E k \in Keys, p \in Payloads, h \in TTLs, f \in WriteFaults : Store(k, p, h, f)
  \/ \E k \in Keys, f \in ReadFaults : Get(k, f)
  \/ \E k \in Keys, f \in WriteFaults : Delete(k, f)
  \/ \E f \in ReadFaults : GetAllMemory(f)
  \/ \E f \in WriteFaults : CleanupExpired(f)
  \/ \E d \in AdvanceSteps : Advance(d)

Spec == Init /\ [][Next]_vars

(***************************************************************************)
(* The cache with lifetimes of every sign: one payload, stores with a      *)
(* negative, a zero and the default expires_hours.                         *)
(***************************************************************************)
LifeTTLs == {-1, 0, DefaultTTL}

LifeNext ==
  \/ \E k \in Keys, h \in LifeTTLs : Store(k, PA, h, "none")
  \/ \E k \in Keys, f \in ReadFaults : Get(k, f)
  \/ \E k \in Keys : Delete(k, "none")
  \/ GetAllMemory("none")
  \/ \E f \in WriteFaults : CleanupExpired(f)
  \/ \E d \in AdvanceSteps : Advance(d)

LifeSpec == Init /\ [][LifeNext]_vars

(***************************************************************************)
(* The cache under concurrent requests: store, statement by statement.     *)
(* SQLite lets one connection at a time hold the database's write lock,    *)
(* from the first write statement of its transaction to its commit; a      *)
(* second writer waits for the lock, up to the connection's busy timeout.  *)
(***************************************************************************)
\* variant: a write statement does not wait for the write lock
CanWriteUnlocked(l, p) == TRUE
\* whether request p's write statement can run: nobody else holds the lock
CanWrite(l, p) == l \in {"none", p}

\* lines 41-45: the call and its connection
StoreBegin(p, k, d, h) ==
  /\ pc[p] = "idle"
  /\ pc' = [pc EXCEPT ![p] = "expiry"]
  /\ job' = [job EXCEPT ![p] = [NoJob EXCEPT !.key = k, !.data = d, !.ttl = h]]
  /\ UNCHANGED <<table, now, nadv, ret, hist, storeOrder, lock, res, req, nup>>

\* line 47: expires_at = datetime.now() + timedelta(hours=expires_hours)
StoreExpiry(p) ==
  /\ pc[p] = "expiry"
  /\ pc' = [pc EXCEPT ![p] = "execute"]
  /\ job' = [job EXCEPT ![p].expires = Ts(ExpiresAt(now, job[p].ttl))]
  /\ UNCHANGED <<table, now, nadv, ret, hist, storeOrder, lock, res, req, nup>>

\* lines 49-52: json.dumps(data) and the INSERT OR REPLACE, which takes the
\* write lock and stamps created_at; a TypeError of json.dumps ends the
\* call in the except clause
StoreExecute(p) ==
  /\ pc[p] = "execute"
  /\ IF ~Serializable(job[p].data)
     THEN /\ pc' = [pc EXCEPT ![p] = "done"]
          /\ res' = [res EXCEPT ![p] = "False"]
          /\ UNCHANGED <<job, lock>>
     ELSE /\ CanWrite(lock, p)
          /\ lock' = p
          /\ job' = [job EXCEPT
                       ![p].created = Ts(CurrentTimestamp(now)),
                       ![p].pending =
                          InsertOrReplace(table,
                             Row(job[p].key, Dumps(job[p].data),
                                 Ts(CurrentTimestamp(now)), job[p].expires))]
          /\ pc' = [pc EXCEPT ![p] = "commit"]
          /\ UNCHANGED res
  /\ UNCHANGED <<table, now, nadv, ret, hist, storeOrder, req, nup>>

\* lines 49-52 and 58-60: the lock stays taken longer than the busy
\* timeout, execute raises "database is locked" and store returns False
StoreBusy(p) ==
  /\ pc[p] = "execute"
  /\ Serializable(job[p].data)
  /\ ~CanWrite(lock, p)
  /\ pc' = [pc EXCEPT ![p] = "done"]
  /\ res' = [res EXCEPT ![p] = "False"]
  /\ UNCHANGED <<table, now, nadv, ret, hist, storeOrder, job, lock, req, nup>>

\* lines 54-56: commit, close, return True
StoreCommit(p) ==
  /\ pc[p] = "commit"
  /\ table' = Commit(table, job[p].pending, TRUE)
  /\ lock' = IF lock = p THEN "none" ELSE lock
  /\ pc' = [pc EXCEPT ![p] = "done"]
  /\ res' = [res EXCEPT ![p] = "True"]
  /\ UNCHANGED <<now, nadv, ret, hist, storeOrder, job, req, nup>>

ConcNext ==
  \/ \E p \in Procs, k \in Keys, d \in Payloads, h \in TTLs : StoreBegin(p, k, d, h)
  \/ \E p \in Procs : StoreExpiry(p)
  \/ \E p \in Procs : StoreExecute(p)
  \/ \E p \in Procs : StoreBusy(p)
  \/ \E p \in Procs : StoreCommit(p)
  \/ \E d \in AdvanceSteps : Advance(d)

ConcSpec == Init /\ [][ConcNext]_vars

(***************************************************************************)
(* Files.  A text is modelled by its characters (str, where the model      *)
(* builds it) and by the set of classifier keywords that occur in its      *)
(* lower-cased form (kws): `keyword in content_lower` is kws membership.   *)
(***************************************************************************)
\* a text that contains a keyword contains the keywords inside that keyword
SubstringClosure(K) ==
  K \cup (IF "billing" \in K THEN {"bill"} ELSE {})
    \cup (IF "request for quote" \in K THEN {"quote"} ELSE {})
    \cup (IF "dissatisfied" \in K THEN {"satisfied"} ELSE {})

\* what json.load gives for a file body: the parsed document, or the
\* message of the JSONDecodeError / UnicodeDecodeError with its keywords
ParseOk(ast) == [ok |-> TRUE, ast |-> ast, msg |-> "", kws |-> {}]
ParseError(msg, K) == [ok |-> FALSE, ast |-> <<"jnull", <<>>>>, msg |-> msg, kws |-> K]

ExpectingValue == ParseError("Expecting value: line 1 column 1 (char 0)", {})

BodyInvoiceText ==
  [text |-> "Invoice - amount due $450.00, please pay ASAP",
   kws |-> SubstringClosure({"invoice", "amount due", "asap"}),
   size |-> 45, parse |-> ExpectingValue]
BodyPlainText ==
  [text |-> "hello", kws |-> {}, size |-> 5, parse |-> ExpectingValue]
BodyJsonFull ==
  [text |-> "{\"id\": \"x\", \"timestamp\": \"t\", \"type\": \"y\"}",
   kws |-> {}, size |-> 42,
   parse |-> ParseOk(<<"jobj", << <<"id", <<"jstr", "x">>>>,
                                  <<"timestamp", <<"jstr", "t">>>>,
                                  <<"type", <<"jstr", "y">>>> >>>>)]
BodyJsonPartial ==
  [text |-> "{\"type\": \"invoice\", \"note\": \"\", \"ref\": null}",
   kws |-> {"invoice"}, size |-> 44,
   parse |-> ParseOk(<<"jobj", << <<"type", <<"jstr", "invoice">>>>,
                                  <<"note", <<"jstr", "">>>>,
                                  <<"ref", <<"jnull", <<>>>>>> >>>>)]
BodyJsonArray ==
  [text |-> "[1]", kws |-> {}, size |-> 3,
   parse |-> ParseOk(<<"jarr", << <<"jint", "1">> >>>>)]
BodyBadJson ==
  [text |-> "{bad", kws |-> {}, size |-> 4,
   parse |-> ParseError("Expecting property name enclosed in double quotes: line 1 column 2 (char 1)",
                        {"quote"})]
BodyBadUtf8 ==
  [text |-> "{}", kws |-> {}, size |-> 4,
   parse |-> ParseError("'utf-8' codec can't decode byte 0xff in position 0: invalid start byte", {})]

Bodies == {BodyInvoiceText, BodyPlainText, BodyJsonFull, BodyJsonPartial,
           BodyJsonArray, BodyBadJson, BodyBadUtf8}

\* file names: os.path.splitext(name)[1] and the keywords in the name
Names == {"order.json", "invoice.JSON", "note.txt", "data.csv"}
SplitExt(name) ==
  CASE name = "order.json" -> ".json"
    [] name = "invoice.JSON" -> ".JSON"
    [] name = "note.txt" -> ".txt"
    [] name = "data.csv" -> ".csv"
    [] name = "scan.PDF" -> ".PDF"
    [] name = "mail.eml" -> ".eml"
    [] OTHER -> ""
NameKws(name) == IF name = "invoice.JSON" THEN {"invoice"} ELSE {}
\* variant: the letter case is kept
LowerKeepCase(x) == x
\* str.lower() on an extension
Lower(x) ==
  CASE x = ".JSON" -> ".json"
    [] x = "JSON" -> "json"
    [] x = ".PDF" -> ".pdf"
    [] x = "ASAP" -> "asap"
    [] OTHER -> x

\* a file on disk; path is what the caller passes, name its last component
File(path, name, status, body) ==
  [path |-> path, name |-> name, status |-> status, body |-> body]
Files ==
  {File(n, n, "ok", b) : n \in Names, b \in Bodies}
    \cup {File(n, n, st, BodyPlainText) : n \in Names, st \in {"missing", "unreadable"}}

\* str(e) of the OSError that open() or os.path.getsize() raises
OsErrorMsg(file) ==
  IF file.status = "missing"
  THEN "[Errno 2] No such file or directory: '" \o file.path \o "'"
  ELSE "[Errno 13] Permission denied: '" \o file.path \o "'"

(***************************************************************************)
(* ClassifierAgent (classifier.py).                                        *)
(***************************************************************************)
\* self.format_mappings.get(file_extension, 'Unknown')
FormatMappings(ext) ==
  CASE ext = ".pdf" -> "PDF"
    [] ext = ".json" -> "JSON"
    [] ext = ".txt" -> "Email"
    [] ext = ".eml" -> "Email"
    [] OTHER -> "Unknown"

\* self.intent_keywords, in declaration order
IntentOrder == <<"Invoice", "RFQ", "Complaint", "Regulation", "Contract", "Report">>
IntentKeywords(intent) ==
  CASE intent = "Invoice" -> {"invoice", "bill", "payment", "amount due", "billing"}
    [] intent = "RFQ" -> {"rfq", "quote", "quotation", "pricing", "request for quote"}
    [] intent = "Complaint" -> {"complaint", "issue", "problem", "dissatisfied", "error"}
    [] intent = "Regulation" -> {"regulation", "compliance", "policy", "guideline", "standard"}
    [] intent = "Contract" -> {"contract", "agreement", "terms", "conditions"}
    [] intent = "Report" -> {"report", "analysis", "summary", "findings"}
    [] OTHER -> {}

HighUrgencyKeywords == {"urgent", "asap", "immediate", "emergency", "critical"}
MediumUrgencyKeywords == {"soon", "priority", "important", "timely"}

\* _read_file_content: the keywords of the text it returns; an exception
\* of open/json.load is turned into the text "Error reading file: <msg>"
ReadFileContent(file) ==
  IF file.status # "ok"
  THEN SubstringClosure({"error"} \cup NameKws(file.name))
  ELSE IF Lower(SplitExt(file.name)) = ".json" /\ ~file.body.parse.ok
       THEN SubstringClosure({"error"} \cup file.body.parse.kws)
       ELSE file.body.kws

\* sum(1 for keyword in keywords if keyword in content_lower)
Score(K, intent) == Cardinality(K \cap IntentKeywords(intent))

\* variant: among the intents of the highest score the last declared wins
ClassifyIntentLast(K) ==
  LET scored == {i \in 1..Len(IntentOrder) : Score(K, IntentOrder[i]) > 0}
      top(i) == \A j \in scored : Score(K, IntentOrder[j]) <= Score(K, IntentOrder[i])
  IN IF scored = {} THEN "General"
     ELSE IntentOrder[CHOOSE i \in scored :
                         top(i) /\ \A j \in scored : top(j) => j <= i]
\* _classify_intent: max() returns the first intent of the highest score
ClassifyIntent(K) ==
  LET scored == {i \in 1..Len(IntentOrder) : Score(K, IntentOrder[i]) > 0}
      top(i) == \A j \in scored : Score(K, IntentOrder[j]) <= Score(K, IntentOrder[i])
  IN IF scored = {} THEN "General"
     ELSE IntentOrder[CHOOSE i \in scored :
                         top(i) /\ \A j \in scored : top(j) => i <= j]

\* variant: the medium keywords are looked for first
ClassifyUrgencyMediumFirst(K) ==
  IF K \cap MediumUrgencyKeywords # {} THEN "Medium"
  ELSE IF K \cap HighUrgencyKeywords # {} THEN "High"
  ELSE "Low"
\* _classify_urgency
ClassifyUrgency(K) ==
  IF K \cap HighUrgencyKeywords # {} THEN "High"
  ELSE IF K \cap MediumUrgencyKeywords # {} THEN "Medium"
  ELSE "Low"

\* variant: no min(..., 1.0)
CalculateConfidenceUncapped(K, intent) ==
  IF intent = "General" THEN 30
  ELSE IF IntentKeywords(intent) = {} THEN 50
  ELSE (100 * Score(K, intent)) \div Cardinality(IntentKeywords(intent)) + 30
\* _calculate_confidence, in hundredths
CalculateConfidence(K, intent) ==
  IF intent = "General" THEN 30
  ELSE IF IntentKeywords(intent) = {} THEN 50
  ELSE LET c == (100 * Score(K, intent)) \div Cardinality(IntentKeywords(intent)) + 30
       IN IF c < 100 THEN c ELSE 100

\* _generate_processing_notes
GenerateProcessingNotes(format, intent) ==
  LET f == CASE format = "PDF" -> <<"PDF document detected - text extraction required">>
             [] format = "JSON" -> <<"JSON data detected - structure validation recommended">>
             [] format = "Email" -> <<"Email content detected - sender and metadata extraction needed">>
             [] OTHER -> <<>>
      n == CASE intent = "Invoice" -> <<"Invoice processing - extract amounts and dates">>
             [] intent = "RFQ" -> <<"RFQ processing - identify requirements and pricing requests">>
             [] intent = "Complaint" -> <<"Complaint processing - prioritize for customer service">>
             [] OTHER -> <<>>
      notes == f \o n
  IN CASE Len(notes) = 0 -> ""
       [] Len(notes) = 1 -> notes[1]
       [] OTHER -> notes[1] \o "; " \o notes[2]

\* classify, lines 51-56: the record of the except clause
DegradedRecord(msg) ==
  PyDict(<< <<PyStr("format"), PyStr("Unknown")>>,
            <<PyStr("intent"), PyStr("Unknown")>>,
            <<PyStr("urgency"), PyStr("Low")>>,
            <<PyStr("error"), PyStr("Classification error: " \o msg)>> >>)

\* classify, lines 27-56; os.path.getsize raises for a missing file
Classify(file, input_type) ==
  LET format == FormatMappings(Lower(SplitExt(file.name)))
      content == ReadFileContent(file)
      intent == ClassifyIntent(content)
  IN IF file.status = "missing"
     THEN DegradedRecord(OsErrorMsg(file))
     ELSE PyDict(<< <<PyStr("format"), PyStr(format)>>,
                    <<PyStr("intent"), PyStr(intent)>>,
                    <<PyStr("urgency"), PyStr(ClassifyUrgency(content))>>,
                    <<PyStr("confidence_score"),
                      PyFloat(CalculateConfidence(content, intent), 100)>>,
                    <<PyStr("file_size"), PyInt(ToString(file.body.size))>>,
                    <<PyStr("processing_notes"),
                      PyStr(GenerateProcessingNotes(format, intent))>> >>)

(***************************************************************************)
(* DataExtractor.extract_from_json (data_extractor.py).                    *)
(***************************************************************************)
\* data.get(name, "unknown")
GetOrUnknown(data, name) == IF HasKey(data, name) THEN Field(data, name) ELSE PyStr("unknown")

\* _format_to_flowbit_schema
FormatToFlowbitSchema(data) ==
  PyDict(<< <<PyStr("id"), GetOrUnknown(data, "id")>>,
            <<PyStr("timestamp"), GetOrUnknown(data, "timestamp")>>,
            <<PyStr("type"), GetOrUnknown(data, "type")>>,
            <<PyStr("data"), data>>,
            <<PyStr("processed_at"), PyStr("2025-01-22T10:00:00Z")>> >>)

\* the values of a dict, the elements of a list, nothing for a scalar
Children(v) ==
  CASE v[1] = "dict" -> [i \in 1..Len(v[2]) |-> v[2][i][2]]
    [] v[1] = "list" -> v[2]
    [] OTHER -> <<>>

\* _has_null_values.check_null
RECURSIVE HasNullValues(_)
HasNullValues(v) ==
  IF v[1] \in {"dict", "list"}
  THEN \E i \in 1..Len(Children(v)) :
          Children(v)[i] = PyNone \/ HasNullValues(Children(v)[i])
  ELSE v = PyNone

\* _has_empty_strings.check_empty
RECURSIVE HasEmptyStrings(_)
HasEmptyStrings(v) ==
  IF v[1] \in {"dict", "list"}
  THEN \E i \in 1..Len(Children(v)) :
          Children(v)[i] = PyStr("") \/ HasEmptyStrings(Children(v)[i])
  ELSE v = PyStr("")

\* _detect_json_anomalies
DetectJsonAnomalies(data) ==
  PyList((IF HasNullValues(data) THEN <<PyStr("Contains null values")>> ELSE <<>>)
           \o (IF HasEmptyStrings(data) THEN <<PyStr("Contains empty strings")>> ELSE <<>>))

RequiredFields == <<"id", "timestamp", "type">>

\* _detect_missing_fields
DetectMissingFields(data) ==
  PyList([i \in 1..Len(SelectSeq(RequiredFields, LAMBDA f : ~HasKey(data, f))) |->
            PyStr(SelectSeq(RequiredFields, LAMBDA f : ~HasKey(data, f))[i])])

\* variant: without the 0.2 base score
CalculateDataQualityNoBase(data) ==
  LET total == Len(data[2])
      nonEmpty == Cardinality({i \in 1..total :
                                 data[2][i][2] # PyNone /\ data[2][i][2] # PyStr("")})
      present == Cardinality({i \in 1..Len(RequiredFields) : HasKey(data, RequiredFields[i])})
      num == 15 * nonEmpty + 3 * present * total
      den == 30 * total
  IN IF total = 0 THEN PyFloat(0, 1)
     ELSE IF num < den THEN PyFloat(num, den) ELSE PyFloat(1, 1)
\* _calculate_data_quality, as the fraction
\* (non_empty/total)*0.5 + (present/3)*0.3 + 0.2 capped at 1
CalculateDataQuality(data) ==
  LET total == Len(data[2])
      nonEmpty == Cardinality({i \in 1..total :
                                 data[2][i][2] # PyNone /\ data[2][i][2] # PyStr("")})
      present == Cardinality({i \in 1..Len(RequiredFields) : HasKey(data, RequiredFields[i])})
      num == 15 * nonEmpty + 3 * present * total + 6 * total
      den == 30 * total
  IN IF total = 0 THEN PyFloat(0, 1)
     ELSE IF num < den THEN PyFloat(num, den) ELSE PyFloat(1, 1)

\* the record of the except clause, lines 84-85
JsonErrorRecord(msg) ==
  PyDict(<< <<PyStr("error"), PyStr("Error extracting from JSON: " \o msg)>> >>)

\* variant: the parse error is attached to an otherwise normal record
ExtractFromJsonTagged(file) ==
  IF file.status = "ok" /\ file.body.parse.ok /\ Loads(file.body.parse.ast)[1] = "dict"
  THEN PyDict(<< <<PyStr("type"), PyStr("json")>>,
                 <<PyStr("original_data"), Loads(file.body.parse.ast)>> >>)
  ELSE PyDict(<< <<PyStr("type"), PyStr("json")>>,
                 <<PyStr("error"), PyStr("Error extracting from JSON")>> >>)
\* extract_from_json, lines 68-85
ExtractFromJson(file) ==
  IF file.status # "ok" THEN JsonErrorRecord(OsErrorMsg(file))
  ELSE IF ~file.body.parse.ok THEN JsonErrorRecord(file.body.parse.msg)
  ELSE LET data == Loads(file.body.parse.ast) IN
       IF data[1] # "dict"
       THEN JsonErrorRecord("'" \o data[1] \o "' object has no attribute 'get'")
       ELSE PyDict(<< <<PyStr("type"), PyStr("json")>>,
                      <<PyStr("original_data"), data>>,
                      <<PyStr("formatted_data"), FormatToFlowbitSchema(data)>>,
                      <<PyStr("anomalies"), DetectJsonAnomalies(data)>>,
                      <<PyStr("missing_fields"), DetectMissingFields(data)>>,
                      <<PyStr("data_quality_score"), CalculateDataQuality(data)>> >>)

(***************************************************************************)
(* DataExtractor.extract_from_file and its readers.  A file read as text   *)
(* gives the words of its body; a PDF body has pages, each a text.         *)
(***************************************************************************)
\* re.findall(amount_pattern, content): the words that are amounts
IsAmount(w) == w = "$450.00"
Amounts(text) == SelectSeq(text, IsAmount)

StrList(text) == PyList([i \in 1..Len(text) |-> PyStr(text[i])])

\* _extract_email_fields: a key for every pattern that matched; no word of
\* the texts is a phone number or an e-mail address
ExtractEmailFields(text) ==
  PyDict(IF Len(Amounts(text)) > 0
         THEN << <<PyStr("amounts"), StrList(Amounts(text))>> >>
         ELSE <<>>)

\* _extract_text_fields
ExtractTextFields(text) == ExtractEmailFields(text)

\* _extract_pdf_fields: no word of the texts is a date
ExtractPdfFields(text) ==
  PyDict(IF Len(Amounts(text)) > 0
         THEN << <<PyStr("amounts"), StrList(Amounts(text))>> >>
         ELSE <<>>)

\* _analyze_sentiment
AnalyzeSentiment(K) ==
  LET positive == Cardinality(K \cap {"good", "great", "excellent", "satisfied", "happy", "pleased"})
      negative == Cardinality(K \cap {"bad", "terrible", "awful", "dissatisfied", "angry", "frustrated"})
  IN IF positive > negative THEN "Positive"
     ELSE IF negative > positive THEN "Negative"
     ELSE "Neutral"

\* _classify_pdf_type
ClassifyPdfType(K) ==
  IF K \cap {"invoice", "bill", "amount due"} # {} THEN "Invoice"
  ELSE IF K \cap {"contract", "agreement", "terms"} # {} THEN "Contract"
  ELSE IF K \cap {"report", "analysis", "summary"} # {} THEN "Report"
  ELSE "Document"

\* the keywords k with `k in content.lower()`
KeywordsIn(text) == SubstringClosure({Lower(text[i]) : i \in 1..Len(text)})

RECURSIVE Join(_)
Join(text) ==
  IF Len(text) = 0 THEN ""
  ELSE IF Len(text) = 1 THEN text[1]
  ELSE text[1] \o " " \o Join(Tail(text))

RECURSIVE Flatten(_)
Flatten(pages) == IF Len(pages) = 0 THEN <<>> ELSE Head(pages) \o Flatten(Tail(pages))

IsPdf(file) == "pages" \in DOMAIN file.body

\* _extract_from_pdf, lines 89-106
ExtractFromPdf(file) ==
  IF file.status # "ok"
  THEN PyDict(<< <<PyStr("error"), PyStr("Error extracting from PDF: " \o OsErrorMsg(file))>> >>)
  ELSE IF ~IsPdf(file)
  THEN PyDict(<< <<PyStr("error"), PyStr("Error extracting from PDF: EOF marker not found")>> >>)
  ELSE LET text == Flatten(file.body.pages) IN
       PyDict(<< <<PyStr("type"), PyStr("pdf")>>,
                 <<PyStr("text_content"), StrList(text)>>,
                 <<PyStr("page_count"), PyInt(ToString(Len(file.body.pages)))>>,
                 <<PyStr("extracted_fields"), ExtractPdfFields(text)>>,
                 <<PyStr("document_type"), PyStr(ClassifyPdfType(KeywordsIn(text)))>> >>)

\* _extract_from_text_file, lines 114-127
ExtractFromTextFile(file) ==
  IF file.status # "ok"
  THEN PyDict(<< <<PyStr("error"),
                   PyStr("Error extracting from text file: " \o OsErrorMsg(file))>> >>)
  ELSE PyDict(<< <<PyStr("type"), PyStr("text")>>,
                 <<PyStr("content"), PyStr(file.body.text)>>,
                 <<PyStr("word_count"), PyInt(ToString(Len(file.body.words)))>>,
                 <<PyStr("extracted_fields"), ExtractTextFields(file.body.words)>>,
                 <<PyStr("sentiment"), PyStr(AnalyzeSentiment(file.body.kws))>> >>)

\* _extract_from_json_file
ExtractFromJsonFile(file) == ExtractFromJson(file)

\* variant: only .txt goes to the text reader
ExtractFromFileTxtOnly(file) ==
  LET file_extension == Lower(SplitExt(file.name))
  IN IF file_extension = ".pdf" THEN ExtractFromPdf(file)
     ELSE IF file_extension = ".json" THEN ExtractFromJsonFile(file)
     ELSE IF file_extension = ".txt" THEN ExtractFromTextFile(file)
     ELSE PyDict(<< <<PyStr("error"),
                      PyStr("Unsupported file format: " \o file_extension)>> >>)
\* extract_from_file, lines 17-30
ExtractFromFile(file) ==
  LET file_extension == Lower(SplitExt(file.name))
  IN IF file_extension = ".pdf" THEN ExtractFromPdf(file)
     ELSE IF file_extension = ".json" THEN ExtractFromJsonFile(file)
     ELSE IF file_extension \in {".txt", ".eml"} THEN ExtractFromTextFile(file)
     ELSE PyDict(<< <<PyStr("error"),
                      PyStr("Unsupported file format: " \o file_extension)>> >>)

(***************************************************************************)
(* The pipeline: the two library entry points called on a file, and the    *)
(* upload handler of main.py, which stores what they return.               *)
(***************************************************************************)
\* uploads handled in one behaviour
MaxUploads == 1

InputTypes == {"JSON", "xml"}
UploadNames == {"order.json", "data.csv"}
UploadBodies == {BodyJsonFull, BodyBadJson, BodyInvoiceText}
AllowedExtensions == {".pdf", ".json", ".txt", ".eml"}

\* str(uuid.uuid4()): a key no earlier upload has
FileId(n) == "f" \o ToString(n)

\* classifier.classify(file_path, input_type)
ClassifyCall(file, input_type) ==
  /\ req' = [file |-> file, input_type |-> input_type]
  /\ ret' = Call("classify", "", FALSE, RetPayload(Classify(file, input_type)))
  /\ UNCHANGED <<table, now, nadv, hist, storeOrder, nup>>
  /\ UNCHANGED concVars

\* data_extractor.extract_from_json(file_path)
ExtractFromJsonCall(file) ==
  /\ req' = [file |-> file, input_type |-> "json"]
  /\ ret' = Call("extract_json", "", FALSE, RetPayload(ExtractFromJson(file)))
  /\ UNCHANGED <<table, now, nadv, hist, storeOrder, nup>>
  /\ UNCHANGED concVars

\* main.py lines 108-115: the payload handed to memory_manager.store
Envelope(file, input_type, classification, extracted, t) ==
  PyDict(<< <<PyStr("filename"), PyStr(file.name)>>,
            <<PyStr("type"), PyStr(input_type)>>,
            <<PyStr("classification"), classification>>,
            <<PyStr("timestamp"), PyStr(ToString(t))>>,
            <<PyStr("file_path"), PyStr(file.path)>>,
            <<PyStr("extracted_data"), extracted>> >>)

\* main.py lines 117-124
UploadResponse(id, file, classification, extracted) ==
  PyDict(<< <<PyStr("success"), PyStr("True")>>,
            <<PyStr("file_id"), PyStr(id)>>,
            <<PyStr("filename"), PyStr(file.name)>>,
            <<PyStr("classification"), classification>>,
            <<PyStr("extracted_data"), extracted>>,
            <<PyStr("file_path"), PyStr(file.path)>> >>)

Http500 == Outcome("raise", "HTTPException 500", NoPayload, <<>>, 0)

\* process_user_input, lines 86-127, for the declared kinds of InputTypes:
\* an HTTPException(400) raised inside the try is caught by its own
\* except clause and leaves as HTTPException(500)
ProcessUserInput(name, body, input_type, f) ==
  LET id == FileId(nup + 1)
      file == File("uploads/" \o id \o "_" \o name, name, "ok", body)
      classification == Classify(file, input_type)
      extracted == ExtractFromJson(file)
      o == StoreTry(table, id, Envelope(file, input_type, classification, extracted, now),
                    DefaultTTL, now, f)
  IN
  /\ nup < MaxUploads
  /\ req' = [file |-> file, input_type |-> input_type]
  /\ IF Lower(SplitExt(name)) \notin AllowedExtensions
     THEN /\ ret' = Call("process", "", TRUE, Http500)
          /\ UNCHANGED <<table, nup>>
     ELSE IF Lower(input_type) # "json"
     THEN /\ ret' = Call("process", id, TRUE, Http500)
          /\ nup' = nup + 1
          /\ UNCHANGED table
     ELSE /\ ret' = Call("process", id, FALSE,
                         RetPayload(UploadResponse(id, file, classification, extracted)))
          /\ nup' = nup + 1
          /\ table' = o.table
  /\ UNCHANGED <<now, nadv, hist, storeOrder>>
  /\ UNCHANGED concVars

PipeNext ==
  \/ \E file \in Files, t \in InputTypes : ClassifyCall(file, t)
  \/ \E file \in Files : ExtractFromJsonCall(file)
  \/ \E n \in UploadNames, b \in UploadBodies, t \in InputTypes, f \in WriteFaults :
        ProcessUserInput(n, b, t, f)

PipeSpec == Init /\ [][PipeNext]_vars

(***************************************************************************)
(* The keyword functions on texts.  A text is a sequence of words; the     *)
(* file that holds it has the words separated by single spaces.            *)
(***************************************************************************)
\* words in one text
MaxWords == 3

Vocabulary == {"invoice", "billing", "payment", "quote", "contract",
               "ASAP", "critical", "soon", "timely", "hello",
               "dissatisfied", "$450.00"}
Texts == UNION {[1..n -> Vocabulary] : n \in 0..MaxWords}

TextBody(text) ==
  [text |-> Join(text), kws |-> KeywordsIn(text), size |-> Len(Join(text)),
   parse |-> ExpectingValue, words |-> text]

\* a PDF document: read as text it shows none of the words of its pages
PdfBody(pages) ==
  [text |-> "%PDF-1.4", kws |-> {}, size |-> 8 + Len(pages),
   parse |-> ExpectingValue, words |-> <<>>, pages |-> pages]

ShortTexts == {text \in Texts : Len(text) <= 1}
TextNames == {"note.txt", "mail.eml", "scan.PDF", "order.json", "data.csv", "README"}
TextFiles ==
  {File("note.txt", "note.txt", "ok", TextBody(text)) : text \in Texts}
    \cup {File(n, n, "ok", TextBody(text)) : n \in TextNames, text \in ShortTexts}
    \cup {File(n, n, "ok", PdfBody(<<a, b>>)) : n \in {"scan.PDF", "note.txt"},
                                                 a \in ShortTexts, b \in {<<>>, <<"invoice">>}}
    \cup {File(n, n, "missing", TextBody(<<>>)) : n \in TextNames}

DeclaredKinds == {"file", "json"}

\* JSON documents: an object with some of four fields, each a string, the
\* empty string, null or a number
JsonFieldNames == <<"id", "timestamp", "type", "note">>
JsonFieldValues == {<<"jstr", "x">>, <<"jstr", "">>, <<"jnull", <<>>>>, <<"jint", "1">>}
Absent == <<"absent", <<>>>>
JsonObject(choice) ==
  LET present == SelectSeq([i \in 1..Len(JsonFieldNames) |-> i],
                           LAMBDA i : choice[i] # Absent)
  IN <<"jobj", [j \in 1..Len(present) |-> <<JsonFieldNames[present[j]], choice[present[j]]>>]>>
JsonObjects ==
  {JsonObject(choice) : choice \in [1..Len(JsonFieldNames) -> JsonFieldValues \cup {Absent}]}

RenderValue(v) ==
  CASE v[1] = "jstr" -> "\"" \o v[2] \o "\""
    [] v[1] = "jint" -> v[2]
    [] OTHER -> "null"
RECURSIVE RenderMembers(_)
RenderMembers(ms) ==
  IF Len(ms) = 0 THEN ""
  ELSE "\"" \o ms[1][1] \o "\": " \o RenderValue(ms[1][2])
         \o (IF Len(ms) = 1 THEN "" ELSE ", " \o RenderMembers(Tail(ms)))
JsonBody(obj) ==
  [text |-> "{" \o RenderMembers(obj[2]) \o "}", kws |-> {},
   size |-> Len("{" \o RenderMembers(obj[2]) \o "}"), parse |-> ParseOk(obj)]
JsonFiles == {File("order.json", "order.json", "ok", JsonBody(obj)) : obj \in JsonObjects}

\* variant: the Classifier's keyword lists
DetectUrgencyFullLadder(K) ==
  IF K \cap HighUrgencyKeywords # {} THEN "High"
  ELSE IF K \cap MediumUrgencyKeywords # {} THEN "Medium"
  ELSE "Low"
\* DataExtractor._detect_urgency
DetectUrgency(K) ==
  IF K \cap {"urgent", "asap", "immediate", "emergency"} # {} THEN "High"
  ELSE IF K \cap {"soon", "priority", "important"} # {} THEN "Medium"
  ELSE "Low"

\* self._detect_urgency(content)
DetectUrgencyCall(text) ==
  /\ req' = [file |-> File("", "", "ok", TextBody(text)), input_type |-> ""]
  /\ ret' = Call("detect_urgency", "", FALSE,
                 RetPayload(PyStr(DetectUrgency(KeywordsIn(text)))))
  /\ UNCHANGED <<table, now, nadv, hist, storeOrder, nup>>
  /\ UNCHANGED concVars

\* a file holding some text is there when the function is called
TextInit ==
  /\ table = {}
  /\ now = 0
  /\ nadv = 0
  /\ ret = Call("init", "", FALSE, RetNone)
  /\ hist = [k \in Keys |-> NoStore]
  /\ storeOrder = <<>>
  /\ pc = [p \in Procs |-> "idle"]
  /\ job = [p \in Procs |-> NoJob]
  /\ lock = "none"
  /\ res = [p \in Procs |-> "none"]
  /\ req \in {[file |-> f, input_type |-> ""] : f \in TextFiles \cup JsonFiles}
  /\ nup = 0

\* one call in each behaviour, on the file of the initial state
\* data_extractor.extract_from_file(file_path), from a caller whose upload
\* was declared to be of the given kind
ExtractFromFileCall(file, kind) ==
  /\ req' = [file |-> file, input_type |-> kind]
  /\ ret' = Call("extract_file", "", FALSE, RetPayload(ExtractFromFile(file)))
  /\ UNCHANGED <<table, now, nadv, hist, storeOrder, nup>>
  /\ UNCHANGED concVars

TextNext ==
  /\ ret.op = "init"
  /\ \/ ClassifyCall(req.file, "file")
     \/ /\ req.file.status = "ok" /\ "words" \in DOMAIN req.file.body
        /\ DetectUrgencyCall(req.file.body.words)
     \/ \E kind \in DeclaredKinds : ExtractFromFileCall(req.file, kind)
     \/ ExtractFromJsonCall(req.file)

TextSpec == TextInit /\ [][TextNext]_vars

(***************************************************************************)
(* Properties of the cache.                                                *)
(***************************************************************************)
\* the instant the entry of the last successful store under k expires
ExpiryOf(k) == hist[k].at + hist[k].ttl * HourTicks
GetOk == ret.op = "get" /\ ~ret.raised

\* C1 as stated: after store(k, p, 24) with no later store/delete on k, a
\* get(k) before 24 hours have elapsed returns a payload equal to p, for
\* every payload json.dumps accepts, and a get(k) at or after expiresAt
\* returns None.
C1_RoundTripAnyPayload ==
  (GetOk /\ hist[ret.key].set /\ hist[ret.key].ttl = DefaultTTL) =>
     IF now < hist[ret.key].at + DefaultTTL * HourTicks
     THEN ret.tag = "payload" /\ ret.payload = hist[ret.key].data
     ELSE ret.tag = "None"

\* C1 amended: the payload read back equals p when p is made of JSON-native
\* values only (str-keyed dicts, lists, strings, numbers); any other
\* payload json.dumps accepts (a tuple, an int key) comes back as a
\* JSON-native value, hence not equal to p; at or after expiresAt get
\* returns None.
C1_RoundTripJsonNative ==
  (GetOk /\ hist[ret.key].set /\ hist[ret.key].ttl = DefaultTTL) =>
     IF now < hist[ret.key].at + DefaultTTL * HourTicks
     THEN /\ ret.tag = "payload"
          /\ JsonNative(ret.payload)
          /\ JsonNative(hist[ret.key].data) <=> ret.payload = hist[ret.key].data
     ELSE ret.tag = "None"

\* a get returned the JSON-native payload stored with the default TTL,
\* some time after the store
C1_Witness ==
  /\ GetOk /\ ret.tag = "payload" /\ ret.payload = PA
  /\ hist[ret.key].set /\ hist[ret.key].ttl = DefaultTTL
  /\ now > hist[ret.key].at

\* C2: a cleanup_expired that does not fail removes exactly the rows with
\* expires_at <= now, returns how many it removed, and a get_all_memory
\* right after it lists exactly the rows the sweep left.
C2_SweepExact ==
  [][/\ (ret'.op = "sweep" /\ ~ret'.raised) =>
          /\ table' = {r \in table : r.expires_at[1] > now}
          /\ ret'.tag = "count"
          /\ ret'.count = Cardinality(table) - Cardinality(table')
     /\ (ret.op = "sweep" /\ ~ret.raised /\ ret'.op = "list" /\ ~ret'.raised) =>
          /\ Len(ret'.list) = Cardinality(table)
          /\ {ret'.list[i].key : i \in 1..Len(ret'.list)} = {r.key : r \in table}
    ]_vars

\* a sweep removed an entry and left another
C2_Witness == ret.op = "sweep" /\ ret.count >= 1 /\ table # {}

\* C3: get returns None when no row is stored under the key and when the
\* row's expiry has passed, and it leaves the table as it was: the expired
\* row stays stored.
C3_GetReadOnly ==
  [][(ret'.op = "get") =>
        /\ table' = table
        /\ (~ret'.raised /\ \A r \in table : r.key = ret'.key => r.expires_at[1] <= now)
              => ret'.tag = "None"
    ]_vars

\* a get answered None for a key whose expired row is still stored
C3_Witness ==
  /\ GetOk /\ ret.tag = "None"
  /\ \E r \in table : r.key = ret.key /\ r.expires_at[1] <= now

\* C4: the table holds at most one row per key; a successful store leaves
\* under its key the row it wrote and nothing of the payload it replaced;
\* and a get before the expiry of the last successful store returns what
\* that store wrote.
C4_LastWriterWins ==
  /\ \A r1, r2 \in table : r1.key = r2.key => r1 = r2
  /\ (ret.op = "store" /\ ~ret.raised) =>
        \A r \in table : r.key = ret.key => r.data = Dumps(hist[ret.key].data)
  /\ (GetOk /\ hist[ret.key].set /\ now < ExpiryOf(ret.key)) =>
        /\ ret.tag = "payload"
        /\ ret.payload = Loads(Dumps(hist[ret.key].data))

\* a store has just replaced a different payload under its key
C4_Witness ==
  /\ ret.op = "store" /\ ~ret.raised
  /\ ret.replaced # NoPayload
  /\ ret.replaced # hist[ret.key].data
  /\ \E r \in table : r.key = ret.key

\* C5: a delete that does not fail returns True whether or not the key is
\* stored, removes the rows of that key and no other row; a get of the key
\* right after it returns None, and a second delete of the key changes
\* nothing and returns True.
C5_DeleteIdempotent ==
  [][/\ (ret'.op = "delete" /\ Delete(ret'.key, "none")) =>
          /\ ~ret'.raised /\ ret'.tag = "True"
          /\ table' = {r \in table : r.key # ret'.key}
     /\ (ret.op = "delete" /\ ~ret.raised /\ ret'.op = "get"
           /\ ret'.key = ret.key /\ ~ret'.raised) => ret'.tag = "None"
     /\ (ret.op = "delete" /\ ~ret.raised /\ ret'.op = "delete"
           /\ ret'.key = ret.key /\ ~ret'.raised) =>
          table' = table /\ ret'.tag = "True"
    ]_vars

\* a delete succeeded and the other key's entry is still stored
C5_Witness ==
  /\ ret.op = "delete" /\ ret.tag = "True"
  /\ \E r \in table : r.key # ret.key

ListOk == ret.op = "list" /\ ~ret.raised
Position(seq, x) == CHOOSE i \in 1..Len(seq) : seq[i] = x

\* what get_all_memory must list: the stored rows whose expiry has not passed
C6_ListsExactlyLive ==
  /\ \A i, j \in 1..Len(ret.list) : i # j => ret.list[i].key # ret.list[j].key
  /\ {[key |-> ret.list[i].key, created_at |-> ret.list[i].created_at,
       expires_at |-> ret.list[i].expires_at] : i \in 1..Len(ret.list)}
       = {[key |-> r.key, created_at |-> r.created_at, expires_at |-> r.expires_at] :
             r \in {x \in table : x.expires_at[1] > now}}

\* C6 as stated: get_all_memory lists exactly the unexpired entries, and of
\* any two listed entries the one stored later comes first.
C6_StoredLaterFirst ==
  ListOk =>
     /\ C6_ListsExactlyLive
     /\ \A i, j \in 1..Len(ret.list) :
           i < j => Position(storeOrder, ret.list[i].key)
                      > Position(storeOrder, ret.list[j].key)

\* C6 amended: get_all_memory lists exactly the unexpired entries, and of
\* any two listed entries the one with the larger created_at (the clock in
\* whole seconds) comes first; entries stored within the same second come
\* in either order.
C6_NewestCreatedFirst ==
  ListOk =>
     /\ C6_ListsExactlyLive
     /\ \A i, j \in 1..Len(ret.list) :
           ret.list[i].created_at[1] > ret.list[j].created_at[1] => i < j

\* two entries created in different seconds were listed
C6_Witness ==
  /\ ListOk /\ Len(ret.list) = 2
  /\ ret.list[1].created_at # ret.list[2].created_at

\* C8: when the underlying store (or the serialisation) fails inside a
\* call, the caller gets a return value and no exception: False from store
\* and delete, None from get, [] from get_all_memory, 0 from
\* cleanup_expired; and the table is as it was before the call.
C8_FailureContained ==
  [][ret'.raised =>
        /\ ret'.kind = "return"
        /\ ret'.op \in {"store", "delete"} => ret'.tag = "False"
        /\ ret'.op = "get" => ret'.tag = "None"
        /\ ret'.op = "list" => ret'.tag = "list" /\ ret'.list = <<>>
        /\ ret'.op = "sweep" => ret'.tag = "count" /\ ret'.count = 0
        /\ table' = table
    ]_vars

\* a store failed while the table held an entry
C8_Witness == ret.op = "store" /\ ret.raised /\ ret.tag = "False" /\ table # {}

(***************************************************************************)
(* Properties of the cache under concurrent requests.                      *)
(***************************************************************************)
\* the row request p's store wrote
RowOf(p) == Row(job[p].key, Dumps(job[p].data), job[p].created, job[p].expires)
Succeeded == {p \in Procs : res[p] = "True"}

InternalFailure(file) ==
  \/ file.status # "ok"
  \/ Lower(SplitExt(file.name)) = ".json" /\ ~file.body.parse.ok

IsDegraded(d) ==
  /\ DictKeys(d) = {"format", "intent", "urgency", "error"}
  /\ Field(d, "format") = PyStr("Unknown")
  /\ Field(d, "intent") = PyStr("Unknown")
  /\ Field(d, "urgency") = PyStr("Low")

\* C9: classify returns, and on every internal failure (missing or
\* unreadable file, content that does not parse) what it returns is the
\* degraded record: format Unknown, intent Unknown, urgency Low, an error.
C9_ClassifyDegrades ==
  (ret.op = "classify" /\ InternalFailure(req.file)) =>
     ret.kind = "return" /\ IsDegraded(ret.payload)

Malformed(file) == file.status = "ok" /\ ~file.body.parse.ok
SuccessFields == {"type", "original_data", "formatted_data", "anomalies",
                  "missing_fields", "data_quality_score"}
ErrorOnly(d) ==
  /\ HasKey(d, "error")
  /\ Field(d, "error")[1] = "str"
  /\ Field(d, "error")[2] # ""
  /\ DictKeys(d) \cap SuccessFields = {}

\* C10: for a file whose content is not valid JSON, extract_from_json
\* returns a record with a non-empty error and none of the success fields,
\* and leaves the cache as it was; when the upload handler processes such
\* a file the only change to the cache is the one row its own store call
\* writes under the new file id, holding that error record.
C10_MalformedJson ==
  [][/\ (ret'.op = "extract_json" /\ Malformed(req'.file)) =>
          /\ ret'.kind = "return" /\ ret'.tag = "payload"
          /\ ErrorOnly(ret'.payload)
          /\ table' = table
     /\ (ret'.op = "process" /\ Malformed(req'.file) /\ table' # table) =>
          \E r \in table' :
             /\ table' = table \cup {r}
             /\ r.key = ret'.key
             /\ ErrorOnly(Field(Loads(r.data), "extracted_data"))
             /\ ErrorOnly(Field(ret'.payload, "extracted_data"))
    ]_vars

\* extract_from_json was called on an existing file holding "{bad"
C10_Witness ==
  /\ ret.op = "extract_json"
  /\ req.file.status = "ok" /\ req.file.body = BodyBadJson
  /\ DictKeys(ret.payload) = {"error"}

(***************************************************************************)
(* Properties of the keyword functions.                                    *)
(***************************************************************************)
\* classify returned its full record for a file whose text it read
ClassifiedText ==
  /\ ret.op = "classify"
  /\ req.file.status = "ok"
  /\ Lower(SplitExt(req.file.name)) # ".json"
  /\ HasKey(ret.payload, "confidence_score")

IntentOf(d) == Field(d, "intent")[2]
SixIntents == {"Invoice", "RFQ", "Complaint", "Regulation", "Contract", "Report"}

\* how many of the intent's keywords are found in the lower-cased text
Found(text, intent) == Cardinality(IntentKeywords(intent) \cap KeywordsIn(text))

\* C11: confidence_score is 0.30 when intent is General and otherwise
\* min(m/n + 0.30, 1.0), m the number of the winning intent's keywords
\* found in the text and n the size of its keyword set; it lies between
\* 0.30 and 1.0 and, for that intent, does not decrease as m grows.
C11_Confidence ==
  ClassifiedText =>
    LET intent == IntentOf(ret.payload)
        c == Field(ret.payload, "confidence_score")[2][1]
        m == Found(req.file.body.words, intent)
        n == Cardinality(IntentKeywords(intent))
    IN /\ Field(ret.payload, "confidence_score")[1] = "float"
       /\ Field(ret.payload, "confidence_score")[2][2] = 100
       /\ 30 <= c /\ c <= 100
       /\ intent = "General" => c = 30
       /\ intent # "General" =>
            /\ m >= 1
            /\ c * n = (IF 100 * m + 30 * n < 100 * n THEN 100 * m + 30 * n ELSE 100 * n)
            /\ \A K \in SUBSET IntentKeywords(intent) :
                  /\ Cardinality(K) >= m => CalculateConfidence(K, intent) >= c
                  /\ Cardinality(K) <= m => CalculateConfidence(K, intent) <= c

\* a text with four of the five Invoice keywords: 4/5 + 0.30 is capped at 1.0
C11_Witness ==
  /\ ClassifiedText
  /\ IntentOf(ret.payload) = "Invoice"
  /\ Found(req.file.body.words, "Invoice") = 4
  /\ Field(ret.payload, "confidence_score") = PyFloat(100, 100)

\* the category that wins under a scoring S: the first declared of those
\* with the highest non-zero score, General when every score is zero
Wins(S(_), intent) ==
  IF \A i \in 1..Len(IntentOrder) : S(IntentOrder[i]) = 0
  THEN intent = "General"
  ELSE \E i \in 1..Len(IntentOrder) :
          /\ intent = IntentOrder[i]
          /\ S(IntentOrder[i]) > 0
          /\ \A j \in 1..Len(IntentOrder) :
                /\ S(IntentOrder[j]) <= S(IntentOrder[i])
                /\ j < i => S(IntentOrder[j]) < S(IntentOrder[i])

\* how often the intent's keywords occur in the lower-cased text
Occurrences(text, intent) ==
  Cardinality({ik \in (1..Len(text)) \X IntentKeywords(intent) :
                  ik[2] \in SubstringClosure({Lower(text[ik[1]])})})

\* C12 as stated: the score of a category counts the occurrences of its
\* keywords in the lower-cased text, the highest non-zero score wins, ties
\* go to the first declared category, General when every score is zero.
C12_OccurrenceScoring ==
  ClassifiedText =>
    LET S(c) == Occurrences(req.file.body.words, c)
    IN Wins(S, IntentOf(ret.payload))

\* C12 amended: the score of a category is the number of its keywords that
\* occur at least once in the lower-cased text (a repeated keyword counts
\* once); the highest non-zero score wins, ties go to the first declared
\* of Invoice, RFQ, Complaint, Regulation, Contract, Report, and intent is
\* General exactly when every category scores zero.
C12_DistinctKeywordScoring ==
  ClassifiedText =>
    LET S(c) == Found(req.file.body.words, c)
    IN /\ Wins(S, IntentOf(ret.payload))
       /\ IntentOf(ret.payload) \in SixIntents \cup {"General"}
       /\ IntentOf(ret.payload) = "General" <=> \A c \in SixIntents : S(c) = 0

\* a tie between RFQ and Contract, one keyword each, won by RFQ although
\* contract comes first in the text
C12_Witness ==
  /\ ClassifiedText
  /\ req.file.body.words = <<"contract", "quote">>
  /\ IntentOf(ret.payload) = "RFQ"

HasAny(text, K) == \E i \in 1..Len(text) : SubstringClosure({Lower(text[i])}) \cap K # {}

\* C13: urgency is High whenever the text has one of urgent, asap,
\* immediate, emergency, critical, whatever medium keywords it also has;
\* Medium when it has none of those and one of soon, priority, important,
\* timely; Low otherwise.
C13_UrgencyLadder ==
  ClassifiedText =>
    LET high == HasAny(req.file.body.words,
                       {"urgent", "asap", "immediate", "emergency", "critical"})
        medium == HasAny(req.file.body.words,
                         {"soon", "priority", "important", "timely"})
    IN Field(ret.payload, "urgency") =
         PyStr(IF high THEN "High" ELSE IF medium THEN "Medium" ELSE "Low")

\* a text with a medium keyword before a high one is High
C13_Witness ==
  /\ ClassifiedText
  /\ req.file.body.words = <<"soon", "ASAP">>
  /\ Field(ret.payload, "urgency") = PyStr("High")

\* C17: for every text the urgency of the extractor's _detect_urgency is
\* the urgency the Classifier's _classify_urgency gives the same text.
C17_SameUrgencyLadder ==
  ret.op = "detect_urgency" =>
     ret.payload = PyStr(ClassifyUrgency(KeywordsIn(req.file.body.words)))

\* the format the specification gives an extension, in any letter case
MappedFormat(ext) ==
  CASE ext \in {".pdf", ".PDF"} -> "PDF"
    [] ext \in {".json", ".JSON"} -> "JSON"
    [] ext \in {".txt", ".TXT", ".eml", ".EML"} -> "Email"
    [] OTHER -> "Unknown"

\* C14 as stated: for a path with one of the extensions .pdf, .json, .txt,
\* .eml in any letter case classify returns the mapped format and never
\* Unknown; Unknown is returned only for extensions outside the mapping.
C14_MappedNeverUnknown ==
  ret.op = "classify" =>
     Field(ret.payload, "format") = PyStr(MappedFormat(SplitExt(req.file.name)))

\* C14 amended: when the file at the path exists, format is the mapped
\* value of its extension in any letter case (PDF, JSON, Email, Email) and
\* is Unknown only for an extension outside the mapping; when no file is
\* at the path, classify returns the degraded record, whose format is
\* Unknown whatever the extension.
C14_MappedWhenFileExists ==
  ret.op = "classify" =>
     IF req.file.status = "missing"
     THEN IsDegraded(ret.payload)
     ELSE /\ Field(ret.payload, "format") = PyStr(MappedFormat(SplitExt(req.file.name)))
          /\ HasKey(ret.payload, "confidence_score")

\* an existing file with an upper-case extension got its mapped format
C14_Witness ==
  /\ ret.op = "classify"
  /\ req.file.name = "scan.PDF" /\ req.file.status = "ok"
  /\ Field(ret.payload, "format") = PyStr("PDF")

\* C15: extract_from_file returns, never raises, what the reader of the
\* file's extension returns: the PDF reader for .pdf, the JSON reader for
\* .json, the text reader for .txt and .eml, and for any other extension
\* a record with an 'Unsupported file format' error; the result is the
\* same whatever kind the caller declared.
C15_DispatchOnExtension ==
  ret.op = "extract_file" =>
     LET ext == SplitExt(req.file.name)
         out == ret.payload
     IN /\ ret.kind = "return" /\ ~ret.raised
        /\ ext \in {".pdf", ".PDF"} => out = ExtractFromPdf(req.file)
        /\ ext \in {".json", ".JSON"} => out = ExtractFromJson(req.file)
        /\ ext \in {".txt", ".TXT", ".eml", ".EML"} => out = ExtractFromTextFile(req.file)
        /\ ext \notin {".pdf", ".PDF", ".json", ".JSON", ".txt", ".TXT", ".eml", ".EML"} =>
              /\ DictKeys(out) = {"error"}
              /\ Field(out, "error") = PyStr("Unsupported file format: " \o Lower(ext))

\* a caller that declared json handed over an .eml file and got the text
\* reader's record
C15_Witness ==
  /\ ret.op = "extract_file"
  /\ req.input_type = "json"
  /\ req.file.name = "mail.eml" /\ req.file.status = "ok"
  /\ Field(ret.payload, "type") = PyStr("text")

\* extract_from_json returned its full record for a JSON object
ExtractedObject ==
  /\ ret.op = "extract_json"
  /\ req.file.status = "ok" /\ req.file.body.parse.ok
  /\ req.file.body.parse.ast[1] = "jobj"

\* the top-level members of the parsed document
Members == req.file.body.parse.ast[2]

\* C16: for a parsed JSON object data_quality_score is 0.0 when the object
\* has no top-level field and otherwise
\* 0.5 * (fields neither null nor "") / (all fields)
\*   + 0.3 * (how many of id, timestamp, type are present) / 3 + 0.2;
\* it lies in [0, 1], is 0.0 for {} and 1.0 for an object holding exactly
\* id, timestamp and type with non-empty values.
C16_DataQuality ==
  ExtractedObject =>
    LET score == Field(ret.payload, "data_quality_score")
        num == score[2][1]
        den == score[2][2]
        total == Len(Members)
        filled == Cardinality({i \in 1..total :
                     Members[i][2] # <<"jnull", <<>>>> /\ Members[i][2] # <<"jstr", "">>})
        required == Cardinality({i \in 1..total : Members[i][1] \in {"id", "timestamp", "type"}})
    IN /\ score[1] = "float" /\ den > 0
       /\ 0 <= num /\ num <= den
       /\ total = 0 => num = 0
       /\ total > 0 =>
            \* num/den = 15*filled/(30*total) + 3*required/30 + 6/30
            num * 30 * total = den * (15 * filled + 3 * required * total + 6 * total)
       /\ (total = 3 /\ required = 3 /\ filled = 3) => num = den

\* the object {"id": "x", "timestamp": "x", "type": "x"} scored 1.0
C16_Witness ==
  /\ ExtractedObject
  /\ Len(Members) = 3
  /\ \A i \in 1..3 : Members[i][1] \in {"id", "timestamp", "type"} /\ Members[i][2] = <<"jstr", "x">>
  /\ Field(ret.payload, "data_quality_score") = PyFloat(1, 1)

(***************************************************************************)
(* More properties of the cache.                                           *)
(***************************************************************************)
CacheOps == {"store", "get", "delete", "list", "sweep"}

\* C18: every cache operation has released the connection it opened by
\* the time it returns, on the success path and on the failure path
\* alike: no completed operation leaves its connection open.
C18_ConnectionReleased ==
  ret.op \in CacheOps => ret.conn = "closed"

\* the instants from now on at which the visibility of a stored row can
\* change
FutureInstants ==
  {t \in {now} \cup {r.expires_at[1] + d : r \in table, d \in {-1, 0, 1}} : t >= now}

\* C19: a cleanup_expired is invisible to readers: at every instant from
\* the sweep on, get(k) for every key returns, and get_all_memory lists
\* the rows, they would have had the sweep not run; and a get(k) returns a
\* payload exactly when k is in the listing of the same instant.
C19_SweepInvisible ==
  [][/\ ret'.op = "sweep" =>
          \A t \in FutureInstants :
             /\ \A k \in Keys : GetResults(table', k, t) = GetResults(table, k, t)
             /\ LiveRows(table', t) = LiveRows(table, t)
     /\ (ret'.op = "get" /\ ~ret'.raised) =>
          (ret'.tag = "payload" <=> \E r \in LiveRows(table', now') : r.key = ret'.key)
    ]_vars

\* a sweep removed the row of a key that had been stored
C19_Witness ==
  /\ ret.op = "sweep" /\ ~ret.raised /\ ret.count >= 1
  /\ \E k \in Keys : hist[k].set /\ \A r \in table : r.key # k

\* the row stored under k
RowsOf(tbl, k) == {r \in tbl : r.key = k}

\* C20: the lifetime of a key is fixed by its most recent store alone.
\* Every store(k, p, ttl) leaves one row under k with created_at the
\* second of that store and a finite expires_at = time of the store + ttl
\* hours, so no stored row has expires_at NULL; a get of a key whose last
\* store had ttl <= 0 returns None; and a get of a key whose last store
\* had ttl > 0 returns that store's payload exactly until its expiry,
\* whether or not the store replaced an expired row that was never swept.
C20_LifetimeFromLastStore ==
  [][/\ (ret'.op = "store" /\ ~ret'.raised) =>
          \E r \in table' :
             /\ RowsOf(table', ret'.key) = {r}
             /\ r.created_at = Ts(now \div SecTicks)
             /\ ~IsNull(r.expires_at)
             /\ r.expires_at[1] = now + hist'[ret'.key].ttl * HourTicks
             /\ hist'[ret'.key].at = now
     /\ \A r \in table' : ~IsNull(r.expires_at)
     /\ (ret'.op = "get" /\ ~ret'.raised /\ hist[ret'.key].set) =>
          LET last == hist[ret'.key] IN
          /\ last.ttl <= 0 => ret'.tag = "None"
          /\ last.ttl > 0 =>
               IF now < last.at + last.ttl * HourTicks
               THEN ret'.tag = "payload" /\ ret'.payload = last.data
               ELSE ret'.tag = "None"
    ]_vars

\* a store with the default lifetime replaced a row that had expired and
\* had not been swept, some time after the first store
C20_Witness ==
  /\ ret.op = "store" /\ ~ret.raised /\ ret.stale
  /\ hist[ret.key].ttl = DefaultTTL /\ hist[ret.key].at > 0
  /\ \E r \in table : r.key = ret.key /\ r.expires_at[1] > now
====
